---- MODULE Spec2Model ----
(***************************************************************************)
(* Model of kafka-proxy's configuration loading (config/config.go): the    *)
(* Config structure, the server-mapping parser getListenerConfigs and      *)
(* Config.Validate, together with the listener directory and connection    *)
(* pipeline that consume the validated configuration.                      *)
(*                                                                         *)
(* Strings that the code parses are sequences of one-character strings;    *)
(* strings that the code only compares are TLA+ strings.                   *)
(***************************************************************************)
EXTENDS Integers, Sequences, FiniteSets, TLC

VARIABLES c, c0, args, err, pc, nsets, dir, hs, conns

vars == <<c, c0, args, err, pc, nsets, dir, hs, conns>>

Nil == "nil"

\* ------------------------------------------------------------------------
\* Bounds of the model
\* ------------------------------------------------------------------------
MaxSets == 1
MaxMappings == 2
NumHandlers == 3
NumBrokers == 2
NumConns == 2

\* ------------------------------------------------------------------------
\* String primitives (strings, strconv, net)
\* ------------------------------------------------------------------------
Digits == {"0", "1", "2", "3", "4", "5", "6", "7", "8", "9"}

DigitVal == [d \in Digits |->
               CASE d = "0" -> 0 [] d = "1" -> 1 [] d = "2" -> 2 [] d = "3" -> 3
                 [] d = "4" -> 4 [] d = "5" -> 5 [] d = "6" -> 6 [] d = "7" -> 7
                 [] d = "8" -> 8 [] d = "9" -> 9]

DigitChar == [n \in 0..9 |-> CHOOSE d \in Digits : DigitVal[d] = n]

Contains(s, ch) == \E i \in 1..Len(s) : s[i] = ch

\* index of the first / last occurrence of ch in s, 0 when absent
Index(s, ch) ==
  IF Contains(s, ch) THEN CHOOSE i \in 1..Len(s) : s[i] = ch /\ \A j \in 1..(i-1) : s[j] # ch
  ELSE 0

LastIndex(s, ch) ==
  IF Contains(s, ch) THEN CHOOSE i \in 1..Len(s) : s[i] = ch /\ \A j \in (i+1)..Len(s) : s[j] # ch
  ELSE 0

\* strings.Split(s, sep) for a one-character separator: always at least one part
RECURSIVE Split(_, _)
Split(s, sep) ==
  LET i == Index(s, sep) IN
  IF i = 0 THEN <<s>>
  ELSE <<SubSeq(s, 1, i - 1)>> \o Split(SubSeq(s, i + 1, Len(s)), sep)

AllDigits(s) == \A i \in 1..Len(s) : s[i] \in Digits

\* strconv.Atoi on an unsigned decimal: value of the digit string
RECURSIVE DecVal(_)
DecVal(s) ==
  IF Len(s) = 0 THEN 0
  ELSE 10 * DecVal(SubSeq(s, 1, Len(s) - 1)) + DigitVal[s[Len(s)]]

\* fmt.Sprint of a non-negative integer
RECURSIVE Sprint(_)
Sprint(n) ==
  IF n < 10 THEN <<DigitChar[n]>>
  ELSE Sprint(n \div 10) \o <<DigitChar[n % 10]>>

\* util.SplitHostPort: net.SplitHostPort followed by strconv.Atoi of the port
SplitHostPort(hostport) ==
  LET i == LastIndex(hostport, ":")
      host == SubSeq(hostport, 1, i - 1)
      port == SubSeq(hostport, i + 1, Len(hostport))
  IN IF i = 0 THEN [err |-> "missing port in address", host |-> <<>>, port |-> 0]
     ELSE IF Contains(host, ":")
       THEN [err |-> "too many colons in address", host |-> <<>>, port |-> 0]
     ELSE IF Len(port) = 0 \/ ~AllDigits(port)
       THEN [err |-> "invalid syntax", host |-> <<>>, port |-> 0]
     ELSE [err |-> Nil, host |-> host, port |-> DecVal(port)]

\* net.JoinHostPort for a host without a colon
JoinHostPort(host, port) == host \o <<":">> \o port

\* ------------------------------------------------------------------------
\* getListenerConfigs
\* ------------------------------------------------------------------------
ListenerConfig(remote, local, advertised) ==
  [BrokerAddress     |-> JoinHostPort(remote.host, Sprint(remote.port)),
   ListenerAddress   |-> JoinHostPort(local.host, Sprint(local.port)),
   AdvertisedAddress |-> JoinHostPort(advertised.host, Sprint(advertised.port))]

\* one iteration of the loop: the parsed entry, or the error that ends the call
ListenerEntryAdvertisedLocal(v) ==
  LET pair == Split(v, ",") IN
  IF Len(pair) # 2 /\ Len(pair) # 3
    THEN [err |-> "server-mapping must be in form", cfg |-> <<>>]
  ELSE LET remote == SplitHostPort(pair[1])
           local  == SplitHostPort(pair[2])
       IN IF remote.err # Nil THEN [err |-> remote.err, cfg |-> <<>>]
          ELSE IF local.err # Nil THEN [err |-> local.err, cfg |-> <<>>]
          ELSE IF Len(pair) = 3 /\ SplitHostPort(pair[3]).err # Nil
            THEN [err |-> SplitHostPort(pair[3]).err, cfg |-> <<>>]
          ELSE [err |-> Nil, cfg |-> ListenerConfig(remote, local, local)]

ListenerEntry(v) ==
  LET pair == Split(v, ",") IN
  IF Len(pair) # 2 /\ Len(pair) # 3
    THEN [err |-> "server-mapping must be in form", cfg |-> <<>>]
  ELSE LET remote == SplitHostPort(pair[1])
           local  == SplitHostPort(pair[2])
       IN IF remote.err # Nil THEN [err |-> remote.err, cfg |-> <<>>]
          ELSE IF local.err # Nil THEN [err |-> local.err, cfg |-> <<>>]
          ELSE IF Len(pair) = 3
            THEN LET advertised == SplitHostPort(pair[3]) IN
                 IF advertised.err # Nil THEN [err |-> advertised.err, cfg |-> <<>>]
                 ELSE [err |-> Nil, cfg |-> ListenerConfig(remote, local, advertised)]
          ELSE [err |-> Nil, cfg |-> ListenerConfig(remote, local, local)]

\* the loop over serversMapping[i..], acc being listenerConfigs so far;
\* an error returns the nil list
RECURSIVE ListenerLoop(_, _, _)
ListenerLoop(serversMapping, i, acc) ==
  IF i > Len(serversMapping) THEN [err |-> Nil, list |-> acc]
  ELSE LET e == ListenerEntry(serversMapping[i]) IN
       IF e.err # Nil THEN [err |-> e.err, list |-> <<>>]
       ELSE ListenerLoop(serversMapping, i + 1, Append(acc, e.cfg))

getListenerConfigs(serversMapping) == ListenerLoop(serversMapping, 1, <<>>)

\* ------------------------------------------------------------------------
\* net.ParseIP, for strings without ':' (dotted-decimal IPv4)
\* ------------------------------------------------------------------------
IPv4Field(f) ==
  /\ Len(f) > 0
  /\ AllDigits(f)
  /\ DecVal(f) <= 255
  /\ (Len(f) > 1 => f[1] # "0")

\* TRUE iff net.ParseIP(s) # nil
ParseIP(s) ==
  /\ Contains(s, ".")
  /\ LET fields == Split(s, ".") IN
       /\ Len(fields) = 4
       /\ \A i \in 1..4 : IPv4Field(fields[i])

\* ------------------------------------------------------------------------
\* net/url: Parse, URL.Port, Userinfo.  A URL is a sequence of tokens: a
\* word (a run of letters or digits) or one of the separators ":" "//" "@";
\* "<ctl>" stands for an ASCII control character.
\* ------------------------------------------------------------------------
Separators == {":", "//", "@"}
CTL == "<ctl>"
NumberWords == {"80"}

Lower(w) == IF w = "HTTP" THEN "http" ELSE w

IsWord(t) == t \notin Separators /\ t # CTL

\* validOptionalPort: "" or ":" followed by digits only
ValidOptionalPort(p) ==
  \/ Len(p) = 0
  \/ /\ p[1] = ":"
     /\ \A i \in 2..Len(p) : p[i] \in NumberWords

\* URL.Port(): the part of Host after the last colon, if a valid port
Port(host) ==
  LET colon == LastIndex(host, ":") IN
  IF colon # 0 /\ ValidOptionalPort(SubSeq(host, colon, Len(host)))
    THEN SubSeq(host, colon + 1, Len(host))
  ELSE <<>>

\* parseAuthority: [userinfo "@"] host
ParseAuthority(authority) ==
  LET at == LastIndex(authority, "@")
      host == SubSeq(authority, at + 1, Len(authority))
      colon == LastIndex(host, ":")
      userinfo == SubSeq(authority, 1, at - 1)
      sep == Index(userinfo, ":")
  IN IF colon # 0 /\ ~ValidOptionalPort(SubSeq(host, colon, Len(host)))
       THEN [err |-> "invalid port", Host |-> <<>>, HasUser |-> FALSE,
             Username |-> <<>>, Password |-> <<>>]
     ELSE IF at = 0
       THEN [err |-> Nil, Host |-> host, HasUser |-> FALSE,
             Username |-> <<>>, Password |-> <<>>]
     ELSE IF sep = 0
       THEN [err |-> Nil, Host |-> host, HasUser |-> TRUE,
             Username |-> userinfo, Password |-> <<>>]
     ELSE [err |-> Nil, Host |-> host, HasUser |-> TRUE,
           Username |-> SubSeq(userinfo, 1, sep - 1),
           Password |-> SubSeq(userinfo, sep + 1, Len(userinfo))]

NoURL(e) == [err |-> e, Scheme |-> "", Host |-> <<>>, HasUser |-> FALSE,
             Username |-> <<>>, Password |-> <<>>]

\* url.Parse(rawURL)
UrlParse(rawURL) ==
  IF Contains(rawURL, CTL) THEN NoURL("invalid control character in URL")
  ELSE IF Len(rawURL) > 0 /\ rawURL[1] = ":" THEN NoURL("missing protocol scheme")
  ELSE LET hasScheme == /\ Len(rawURL) >= 2
                        /\ IsWord(rawURL[1])
                        /\ rawURL[1] \notin NumberWords
                        /\ rawURL[2] = ":"
           scheme == IF hasScheme THEN Lower(rawURL[1]) ELSE ""
           rest == IF hasScheme THEN SubSeq(rawURL, 3, Len(rawURL)) ELSE rawURL
       IN IF Len(rest) > 0 /\ rest[1] = "//"
            THEN LET a == ParseAuthority(SubSeq(rest, 2, Len(rest))) IN
                 IF a.err # Nil THEN NoURL(a.err)
                 ELSE [err |-> Nil, Scheme |-> scheme, Host |-> a.Host,
                       HasUser |-> a.HasUser, Username |-> a.Username,
                       Password |-> a.Password]
          ELSE IF hasScheme
            THEN [NoURL(Nil) EXCEPT !.Scheme = scheme]   \* opaque URL, no host
          ELSE IF Contains(rest, ":")
            THEN NoURL("first path segment in URL cannot contain colon")
          ELSE NoURL(Nil)                                 \* a relative path

\* ------------------------------------------------------------------------
\* Config and NewConfig.  Durations are whole seconds.
\* ------------------------------------------------------------------------
KRB5_USER_AUTH == "USER"
KRB5_KEYTAB_AUTH == "KEYTAB"

PluginSpec == [Enable |-> FALSE, Command |-> "", Mechanism |-> "", Timeout |-> 0]
GatewaySpec == [Enable |-> FALSE, Method |-> "", Magic |-> 0, Command |-> "", Timeout |-> 0]

NewConfig ==
  [Proxy |-> [DefaultListenerIP         |-> <<"0", ".", "0", ".", "0", ".", "0">>,
              BootstrapServers          |-> <<>>,
              ExternalServers           |-> <<>>,
              DeterministicListeners    |-> FALSE,
              DisableDynamicListeners   |-> FALSE,
              DynamicSequentialMinPort  |-> 0,
              DynamicSequentialMaxPorts |-> 0,
              RequestBufferSize         |-> 4096,
              ResponseBufferSize        |-> 4096,
              ListenerKeepAlive         |-> 60,
              TLS |-> [Enable |-> FALSE, ListenerCertFile |-> "", ListenerKeyFile |-> ""]],
   Auth |-> [Local   |-> PluginSpec,
             Gateway |-> [Client |-> GatewaySpec, Server |-> GatewaySpec]],
   Kafka |-> [MaxOpenRequests |-> 256,
              DialTimeout     |-> 15,
              WriteTimeout    |-> 30,
              ReadTimeout     |-> 30,
              KeepAlive       |-> 60,
              TLS  |-> [Enable |-> FALSE, ClientCertFile |-> "", SameClientCertEnable |-> FALSE],
              SASL |-> [Enable |-> FALSE, Username |-> "", Password |-> "", Method |-> "",
                        Plugin |-> PluginSpec,
                        GSSAPI |-> [AuthType |-> "", KeyTabPath |-> "",
                                    KerberosConfigPath |-> "", Username |-> "",
                                    Password |-> "", Realm |-> ""]]],
   ForwardProxy |-> [Url |-> <<>>, Scheme |-> "", Address |-> <<>>,
                     Username |-> <<>>, Password |-> <<>>]]

\* ------------------------------------------------------------------------
\* Config.Validate, in the order of the source.  Each stage gives the error
\* of its first failing check, or Nil.
\* ------------------------------------------------------------------------
ValidateGSSAPI(g) ==
  IF g.AuthType = KRB5_USER_AUTH /\ g.Password = ""
    THEN "GSSAPI.Password is required for GSSAPI.AuthType USER"
  ELSE IF g.AuthType = KRB5_KEYTAB_AUTH /\ g.KeyTabPath = ""
    THEN "GSSAPI.KeyTabPath is required for GSSAPI.AuthType KEYTAB"
  ELSE IF g.AuthType \notin {KRB5_USER_AUTH, KRB5_KEYTAB_AUTH}
    THEN "Unsupported GSSAPI.AuthType"
  ELSE IF g.KerberosConfigPath = "" THEN "GSSAPI KerberosConfigPath must not be empty"
  ELSE IF g.Username = "" THEN "GSSAPI Username must not be empty"
  ELSE IF g.Realm = "" THEN "GSSAPI Realm must not be empty"
  ELSE Nil

ValidateSASL(k) ==
  IF k.SASL.Enable
    THEN IF k.SASL.Plugin.Enable
           THEN IF k.SASL.Plugin.Command = ""
                  THEN "Command is required when Kafka.SASL.Plugin.Enable is enabled"
                ELSE IF k.SASL.Plugin.Timeout <= 0
                  THEN "Kafka.SASL.Plugin.Timeout must be greater than 0"
                ELSE IF k.SASL.Plugin.Mechanism # "OAUTHBEARER"
                  THEN "Mechanism OAUTHBEARER is required when Kafka.SASL.Plugin.Enable is enabled"
                ELSE Nil
         ELSE IF k.SASL.Method = "GSSAPI" THEN ValidateGSSAPI(k.SASL.GSSAPI)
         ELSE IF k.SASL.Method = "AWS_MSK_IAM" THEN Nil
         ELSE IF k.SASL.Username = "" \/ k.SASL.Password = ""
           THEN "SASL.Username and SASL.Password are required"
         ELSE Nil
  ELSE IF k.SASL.Plugin.Enable
    THEN "Kafka.SASL.Plugin.Enable must be disabled, when SASL is disabled"
  ELSE Nil

ValidateKafkaNoWriteTimeout(k) ==
  IF k.KeepAlive < 0 THEN "KeepAlive must be greater or equal 0"
  ELSE IF k.DialTimeout < 0 THEN "DialTimeout must be greater or equal 0"
  ELSE IF k.ReadTimeout < 0 THEN "ReadTimeout must be greater or equal 0"
  ELSE IF k.MaxOpenRequests < 1 THEN "MaxOpenRequests must be greater than 0"
  ELSE Nil

ValidateKafka(k) ==
  IF k.KeepAlive < 0 THEN "KeepAlive must be greater or equal 0"
  ELSE IF k.DialTimeout < 0 THEN "DialTimeout must be greater or equal 0"
  ELSE IF k.ReadTimeout < 0 THEN "ReadTimeout must be greater or equal 0"
  ELSE IF k.WriteTimeout < 0 THEN "WriteTimeout must be greater or equal 0"
  ELSE IF k.MaxOpenRequests < 1 THEN "MaxOpenRequests must be greater than 0"
  ELSE Nil

ValidateProxy(p) ==
  IF Len(p.BootstrapServers) = 0 THEN "list of bootstrap-server-mapping must not be empty"
  ELSE IF p.DefaultListenerIP = <<>> THEN "DefaultListenerIP must not be empty"
  ELSE IF ~ParseIP(p.DefaultListenerIP) THEN "DefaultListerIP is not a valid IP"
  ELSE IF p.RequestBufferSize < 1 THEN "RequestBufferSize must be greater than 0"
  ELSE IF p.ResponseBufferSize < 1 THEN "ResponseBufferSize must be greater than 0"
  ELSE IF p.ListenerKeepAlive < 0 THEN "ListenerKeepAlive must be greater or equal 0"
  ELSE Nil

ValidateTLS(cfg) ==
  IF cfg.Proxy.TLS.Enable
     /\ (cfg.Proxy.TLS.ListenerKeyFile = "" \/ cfg.Proxy.TLS.ListenerCertFile = "")
    THEN "ListenerKeyFile and ListenerCertFile are required when Proxy TLS is enabled"
  ELSE IF cfg.Kafka.TLS.SameClientCertEnable
          /\ (~cfg.Kafka.TLS.Enable \/ cfg.Kafka.TLS.ClientCertFile = "" \/ ~cfg.Proxy.TLS.Enable)
    THEN "ClientCertFile is required on Kafka TLS and TLS must be enabled on both"
  ELSE Nil

GatewayIncomplete(g) == g.Command = "" \/ g.Method = "" \/ g.Magic = 0

ValidateAuthNoMagic(a) ==
  IF a.Local.Enable /\ a.Local.Command = ""
    THEN "Command is required when Auth.Local.Enable is enabled"
  ELSE IF a.Local.Enable /\ a.Local.Mechanism \notin {"PLAIN", "OAUTHBEARER", "SCRAM"}
    THEN "Mechanism PLAIN or OAUTHBEARER is required when Auth.Local.Enable is enabled"
  ELSE IF a.Local.Enable /\ a.Local.Timeout <= 0
    THEN "Auth.Local.Timeout must be greater than 0"
  ELSE IF a.Gateway.Client.Enable /\ GatewayIncomplete(a.Gateway.Client)
    THEN "Command, Method and Magic are required when Auth.Gateway.Client.Enable is enabled"
  ELSE IF a.Gateway.Client.Enable /\ a.Gateway.Client.Timeout <= 0
    THEN "Auth.Gateway.Client.Timeout must be greater than 0"
  ELSE IF a.Gateway.Server.Enable
          /\ (a.Gateway.Server.Command = "" \/ a.Gateway.Server.Method = "")
    THEN "Command, Method and Magic are required when Auth.Gateway.Server.Enable is enabled"
  ELSE IF a.Gateway.Server.Enable /\ a.Gateway.Server.Timeout <= 0
    THEN "Auth.Gateway.Server.Timeout must be greater than 0"
  ELSE Nil

ValidateAuth(a) ==
  IF a.Local.Enable /\ a.Local.Command = ""
    THEN "Command is required when Auth.Local.Enable is enabled"
  ELSE IF a.Local.Enable /\ a.Local.Mechanism \notin {"PLAIN", "OAUTHBEARER", "SCRAM"}
    THEN "Mechanism PLAIN or OAUTHBEARER is required when Auth.Local.Enable is enabled"
  ELSE IF a.Local.Enable /\ a.Local.Timeout <= 0
    THEN "Auth.Local.Timeout must be greater than 0"
  ELSE IF a.Gateway.Client.Enable /\ GatewayIncomplete(a.Gateway.Client)
    THEN "Command, Method and Magic are required when Auth.Gateway.Client.Enable is enabled"
  ELSE IF a.Gateway.Client.Enable /\ a.Gateway.Client.Timeout <= 0
    THEN "Auth.Gateway.Client.Timeout must be greater than 0"
  ELSE IF a.Gateway.Server.Enable /\ GatewayIncomplete(a.Gateway.Server)
    THEN "Command, Method and Magic are required when Auth.Gateway.Server.Enable is enabled"
  ELSE IF a.Gateway.Server.Enable /\ a.Gateway.Server.Timeout <= 0
    THEN "Auth.Gateway.Server.Timeout must be greater than 0"
  ELSE Nil

\* the ForwardProxy block: the fields derived from the URL are assigned as
\* the checks proceed, so a late rejection leaves the earlier ones assigned
ValidateForwardProxyUserOnly(cfg) ==
  LET u == UrlParse(cfg.ForwardProxy.Url)
      c1 == [cfg EXCEPT !.ForwardProxy.Address = u.Host]
      c2 == [c1 EXCEPT !.ForwardProxy.Scheme = u.Scheme]
      c3 == [c2 EXCEPT !.ForwardProxy.Username = u.Username,
                       !.ForwardProxy.Password = u.Password]
  IN IF cfg.ForwardProxy.Url = <<>> THEN [err |-> Nil, c |-> cfg]
     ELSE IF u.err # Nil THEN [err |-> u.err, c |-> cfg]
     ELSE IF Port(u.Host) = <<>>
       THEN [err |-> "Port part of ForwardProxy.Url must not be empty", c |-> cfg]
     ELSE IF u.Scheme # "http" /\ u.Scheme # "socks5"
       THEN [err |-> "ForwardProxy.Url Scheme must be http or socks5", c |-> c1]
     ELSE IF ~u.HasUser THEN [err |-> Nil, c |-> c2]
     ELSE IF u.Username = <<>>
       THEN [err |-> "Both ForwardProxy Url Username and Password must be provided", c |-> c2]
     ELSE [err |-> Nil, c |-> c3]

ValidateForwardProxy(cfg) ==
  LET u == UrlParse(cfg.ForwardProxy.Url)
      c1 == [cfg EXCEPT !.ForwardProxy.Address = u.Host]
      c2 == [c1 EXCEPT !.ForwardProxy.Scheme = u.Scheme]
      c3 == [c2 EXCEPT !.ForwardProxy.Username = u.Username,
                       !.ForwardProxy.Password = u.Password]
  IN IF cfg.ForwardProxy.Url = <<>> THEN [err |-> Nil, c |-> cfg]
     ELSE IF u.err # Nil THEN [err |-> u.err, c |-> cfg]
     ELSE IF Port(u.Host) = <<>>
       THEN [err |-> "Port part of ForwardProxy.Url must not be empty", c |-> cfg]
     ELSE IF u.Scheme # "http" /\ u.Scheme # "socks5"
       THEN [err |-> "ForwardProxy.Url Scheme must be http or socks5", c |-> c1]
     ELSE IF ~u.HasUser THEN [err |-> Nil, c |-> c2]
     ELSE IF u.Username = <<>> \/ u.Password = <<>>
       THEN [err |-> "Both ForwardProxy Url Username and Password must be provided", c |-> c2]
     ELSE [err |-> Nil, c |-> c3]

\* uint16(65536 - uint32(minPort))
DefaultMaxPorts(minPort) == (65536 - minPort) % 65536

\* the dynamic-listener block
ValidateDynamicNoMaxPortsCheck(cfg) ==
  LET p == cfg.Proxy IN
  IF p.DisableDynamicListeners THEN [err |-> Nil, c |-> cfg]
  ELSE IF p.DynamicSequentialMinPort = 0 /\ p.DeterministicListeners
    THEN [err |-> "Proxy.DynamicSequentialMinPort must be set when Proxy.DeterministicListeners is enabled",
          c |-> cfg]
  ELSE IF p.DynamicSequentialMaxPorts = 0 /\ p.DynamicSequentialMinPort > 0
    THEN [err |-> Nil,
          c |-> [cfg EXCEPT !.Proxy.DynamicSequentialMaxPorts =
                                 DefaultMaxPorts(p.DynamicSequentialMinPort)]]
  ELSE [err |-> Nil, c |-> cfg]

ValidateDynamic(cfg) ==
  LET p == cfg.Proxy IN
  IF p.DisableDynamicListeners THEN [err |-> Nil, c |-> cfg]
  ELSE IF p.DynamicSequentialMinPort = 0 /\ p.DeterministicListeners
    THEN [err |-> "Proxy.DynamicSequentialMinPort must be set when Proxy.DeterministicListeners is enabled",
          c |-> cfg]
  ELSE IF p.DynamicSequentialMinPort = 0 /\ p.DynamicSequentialMaxPorts > 0
    THEN [err |-> "Proxy.DynamicSequentialMinPort must be set when Proxy.DynamicSequentialMaxPorts is set",
          c |-> cfg]
  ELSE IF p.DynamicSequentialMaxPorts = 0 /\ p.DynamicSequentialMinPort > 0
    THEN [err |-> Nil,
          c |-> [cfg EXCEPT !.Proxy.DynamicSequentialMaxPorts =
                                 DefaultMaxPorts(p.DynamicSequentialMinPort)]]
  ELSE [err |-> Nil, c |-> cfg]

\* the checks that only read the configuration, up to the ForwardProxy block
ValidateChecks(cfg) ==
  LET es == <<ValidateSASL(cfg.Kafka), ValidateKafka(cfg.Kafka), ValidateProxy(cfg.Proxy),
              ValidateTLS(cfg), ValidateAuth(cfg.Auth)>>
  IN IF \A i \in 1..Len(es) : es[i] = Nil THEN Nil
     ELSE es[CHOOSE i \in 1..Len(es) : es[i] # Nil /\ \A j \in 1..(i-1) : es[j] = Nil]

\* Config.Validate with the dynamic-listener block moved to the front
ValidateDynamicFirst(cfg) ==
  LET d == ValidateDynamic(cfg) IN
  IF d.err # Nil THEN d
  ELSE IF ValidateChecks(d.c) # Nil THEN [err |-> ValidateChecks(d.c), c |-> d.c]
  ELSE ValidateForwardProxy(d.c)

\* Config.Validate: the error returned and the configuration it leaves
Validate(cfg) ==
  IF ValidateChecks(cfg) # Nil THEN [err |-> ValidateChecks(cfg), c |-> cfg]
  ELSE LET f == ValidateForwardProxy(cfg) IN
       IF f.err # Nil THEN f ELSE ValidateDynamic(f.c)

\* ------------------------------------------------------------------------
\* Input values
\* ------------------------------------------------------------------------
Strs == {"", "x"}
SmallInts == {-1, 0, 1}
Timeouts == {0, 1}
Mechanisms == {"PLAIN", "OAUTHBEARER", "SCRAM", "GSSAPI"}
SASLMethods == {"PLAIN", "GSSAPI", "AWS_MSK_IAM"}
AuthTypes == {"", KRB5_USER_AUTH, KRB5_KEYTAB_AUTH}
Magics == {0, 1}
\* uint16 values for the sequential port settings
PortValues == {0, 1, 2, 65535}

IPs == { <<>>,
         <<"0", ".", "0", ".", "0", ".", "0">>,
         <<"1", "0", ".", "0", ".", "0", ".", "2", "5", "6">>,
         <<"1", ".", "2", ".", "3">>,
         <<"h", "o", "s", "t">> }

\* forward-proxy URLs: scheme "://" [userinfo "@"] host [":" [port]], and a
\* few of other shapes
UrlSchemes == { <<"http", ":">>, <<"socks5", ":">>, <<"ftp", ":">>, <<"HTTP", ":">> }
UrlUsers == { <<>>, <<"@">>, <<"u", "@">>, <<"u", ":", "@">>, <<":", "p", "@">>,
              <<"u", ":", "p", "@">> }
UrlPorts == { <<>>, <<":">>, <<":", "80">> }
Urls == { sch \o <<"//">> \o us \o <<"h">> \o po :
            sch \in UrlSchemes, us \in UrlUsers, po \in UrlPorts }
        \cup { <<>>,
               <<"http", ":", "//", CTL, "h", ":", "80">>,
               <<"http", ":", "//", "h", ":", "x">>,
               <<"http", ":", "h", ":", "80">>,
               <<"h", ":", "80">>,
               <<"//", "h", ":", "80">>,
               <<":", "//", "h", ":", "80">> }

\* server-mapping entries
Entries == { <<"a", ":", "9", ",", "l", ":", "1">>,
             <<"b", ":", "9", ",", "l", ":", "0", "1">>,
             <<"c", ":", "9", ",", "l", ":", "2", ",", "v", ":", "3">>,
             <<"a", ":", "9">>,
             <<"a", ":", "9", ",", "l", ":", "1", ",", "v", ":", "3", ",", "w", ":", "4">>,
             <<"a", ":", "9", ",", "l">>,
             <<"a", ":", "9", ",", "l", ":", "1", ",", "v", ":">> }

MappingLists(n) == UNION { [1..k -> Entries] : k \in 0..n }

\* the mappings given while the flags vary
FlagMappings == { <<>>, << <<"a", ":", "9", ",", "l", ":", "1">> >> }

\* ------------------------------------------------------------------------
\* Loading a configuration: the flags assign fields of NewConfig(), then
\* InitBootstrapServers, InitExternalServers and Validate run in this order,
\* each one only if the one before returned nil.
\* ------------------------------------------------------------------------
NoDir == [mappings |-> <<>>]
cfgVars == <<c, c0, args, err, pc, nsets>>

InitConfig ==
  /\ c = NewConfig
  /\ c0 = NewConfig
  /\ args = [bootstrapServersMapping |-> <<>>, externalServersMapping |-> <<>>]
  /\ err = Nil
  /\ pc = "flags"
  /\ nsets = 0

SetFlag(cfg) ==
  /\ pc = "flags"
  /\ nsets < MaxSets
  /\ c' = cfg
  /\ nsets' = nsets + 1
  /\ UNCHANGED <<c0, args, err, pc, dir, hs, conns>>

SetKafkaSASL ==
  \E en \in BOOLEAN, m \in SASLMethods, u \in Strs, p \in Strs :
    SetFlag([c EXCEPT !.Kafka.SASL.Enable = en, !.Kafka.SASL.Method = m,
                      !.Kafka.SASL.Username = u, !.Kafka.SASL.Password = p])

SetKafkaSASLPlugin ==
  \E en \in BOOLEAN, cmd \in Strs, m \in {"OAUTHBEARER", "PLAIN"}, t \in Timeouts :
    SetFlag([c EXCEPT !.Kafka.SASL.Plugin =
               [Enable |-> en, Command |-> cmd, Mechanism |-> m, Timeout |-> t]])

SetKafkaGSSAPIAuth ==
  \E at \in AuthTypes, kt \in Strs, p \in Strs :
    SetFlag([c EXCEPT !.Kafka.SASL.GSSAPI.AuthType = at,
                      !.Kafka.SASL.GSSAPI.KeyTabPath = kt,
                      !.Kafka.SASL.GSSAPI.Password = p])

SetKafkaGSSAPIPrincipal ==
  \E kc \in Strs, u \in Strs, r \in Strs :
    SetFlag([c EXCEPT !.Kafka.SASL.GSSAPI.KerberosConfigPath = kc,
                      !.Kafka.SASL.GSSAPI.Username = u,
                      !.Kafka.SASL.GSSAPI.Realm = r])

SetKafka ==
  \E f \in {"KeepAlive", "DialTimeout", "ReadTimeout", "WriteTimeout", "MaxOpenRequests"},
     v \in SmallInts :
    SetFlag([c EXCEPT !.Kafka[f] = v])

SetProxy ==
  \E f \in {"RequestBufferSize", "ResponseBufferSize", "ListenerKeepAlive"},
     v \in SmallInts :
    SetFlag([c EXCEPT !.Proxy[f] = v])

SetDefaultListenerIP ==
  \E ip \in IPs : SetFlag([c EXCEPT !.Proxy.DefaultListenerIP = ip])

SetProxyTLS ==
  \E pe \in BOOLEAN, cert \in Strs, key \in Strs :
    SetFlag([c EXCEPT !.Proxy.TLS = [Enable |-> pe, ListenerCertFile |-> cert,
                                     ListenerKeyFile |-> key]])

SetKafkaTLS ==
  \E ke \in BOOLEAN, cc \in Strs, same \in BOOLEAN :
    SetFlag([c EXCEPT !.Kafka.TLS = [Enable |-> ke, ClientCertFile |-> cc,
                                     SameClientCertEnable |-> same]])

SetAuthLocal ==
  \E en \in BOOLEAN, cmd \in Strs, m \in Mechanisms, t \in Timeouts :
    SetFlag([c EXCEPT !.Auth.Local =
               [Enable |-> en, Command |-> cmd, Mechanism |-> m, Timeout |-> t]])

Gateways ==
  { [Enable |-> en, Method |-> m, Magic |-> mg, Command |-> cmd, Timeout |-> t] :
      en \in BOOLEAN, m \in Strs, mg \in Magics, cmd \in Strs, t \in Timeouts }

SetAuthGatewayClient ==
  \E g \in Gateways : SetFlag([c EXCEPT !.Auth.Gateway.Client = g])

SetAuthGatewayServer ==
  \E g \in Gateways : SetFlag([c EXCEPT !.Auth.Gateway.Server = g])

SetForwardProxyUrl ==
  \E u \in Urls : SetFlag([c EXCEPT !.ForwardProxy.Url = u])

SetDynamicListeners ==
  \E dis \in BOOLEAN, det \in BOOLEAN, mn \in PortValues, mx \in PortValues :
    SetFlag([c EXCEPT !.Proxy.DisableDynamicListeners = dis,
                      !.Proxy.DeterministicListeners = det,
                      !.Proxy.DynamicSequentialMinPort = mn,
                      !.Proxy.DynamicSequentialMaxPorts = mx])

InitBootstrapServers(inputs) ==
  /\ pc = "flags"
  /\ \E m \in inputs :
       LET r == getListenerConfigs(m) IN
       /\ args' = [args EXCEPT !.bootstrapServersMapping = m]
       /\ c' = [c EXCEPT !.Proxy.BootstrapServers = r.list]
       /\ err' = r.err
       /\ pc' = IF r.err = Nil THEN "external" ELSE "failedBootstrap"
  /\ UNCHANGED <<c0, nsets, dir, hs, conns>>

InitExternalServers(inputs) ==
  /\ pc = "external"
  /\ \E m \in inputs :
       LET r == getListenerConfigs(m) IN
       /\ args' = [args EXCEPT !.externalServersMapping = m]
       /\ c' = [c EXCEPT !.Proxy.ExternalServers = r.list]
       /\ err' = r.err
       /\ pc' = IF r.err = Nil THEN "validate" ELSE "failedExternal"
  /\ UNCHANGED <<c0, nsets, dir, hs, conns>>

\* c0 records the configuration Validate was called on
DoValidate ==
  /\ pc = "validate"
  /\ LET r == Validate(c) IN
       /\ c0' = c
       /\ c' = r.c
       /\ err' = r.err
       /\ pc' = IF r.err = Nil THEN "ready" ELSE "rejected"
  /\ UNCHANGED <<args, nsets, dir, hs, conns>>

Init ==
  /\ InitConfig
  /\ dir = NoDir /\ hs = <<>> /\ conns = <<>>

Next ==
  \/ SetKafkaSASL
  \/ SetKafkaSASLPlugin
  \/ SetKafkaGSSAPIAuth
  \/ SetKafkaGSSAPIPrincipal
  \/ SetKafka
  \/ SetProxy
  \/ SetDefaultListenerIP
  \/ SetProxyTLS
  \/ SetKafkaTLS
  \/ SetAuthLocal
  \/ SetAuthGatewayClient
  \/ SetAuthGatewayServer
  \/ SetForwardProxyUrl
  \/ SetDynamicListeners
  \/ InitBootstrapServers(FlagMappings)
  \/ InitExternalServers({<<>>})
  \/ DoValidate

Spec == Init /\ [][Next]_vars

NextListeners ==
  \/ InitBootstrapServers(MappingLists(MaxMappings))
  \/ InitExternalServers(MappingLists(MaxMappings))
  \/ DoValidate

SpecListeners == Init /\ [][NextListeners]_vars

\* ------------------------------------------------------------------------
\* Properties of configuration loading
\* ------------------------------------------------------------------------
Validated == pc \in {"ready", "rejected"}

GatewayComplete(g) == g.Command # "" /\ g.Method # "" /\ g.Magic # 0 /\ g.Timeout > 0

\* C1: a configuration Validate accepts carries a complete plugin spec for
\* every enabled authentication role: local auth has a command, one of the
\* mechanisms PLAIN, OAUTHBEARER, SCRAM and a positive timeout; each gateway
\* role has a command, a method, a non-zero magic and a positive timeout.
C1_AuthSpecsComplete ==
  pc = "ready" =>
    /\ c.Auth.Local.Enable =>
         /\ c.Auth.Local.Command # ""
         /\ c.Auth.Local.Mechanism \in {"PLAIN", "OAUTHBEARER", "SCRAM"}
         /\ c.Auth.Local.Timeout > 0
    /\ c.Auth.Gateway.Client.Enable => GatewayComplete(c.Auth.Gateway.Client)
    /\ c.Auth.Gateway.Server.Enable => GatewayComplete(c.Auth.Gateway.Server)

C1_Witness == pc = "ready" /\ c.Auth.Gateway.Server.Enable

\* dotted-decimal syntax, stated on the characters: four non-empty digit
\* runs separated by three dots, each at most 255 and without a leading zero
DottedDecimal(s) ==
  \E i, j, k \in 1..Len(s) :
    /\ i < j /\ j < k
    /\ \A n \in 1..Len(s) : (s[n] = ".") <=> (n \in {i, j, k})
    /\ \A f \in { SubSeq(s, 1, i - 1), SubSeq(s, i + 1, j - 1),
                  SubSeq(s, j + 1, k - 1), SubSeq(s, k + 1, Len(s)) } :
         /\ f # <<>>
         /\ \A n \in 1..Len(f) : f[n] \in Digits
         /\ DecVal(f) <= 255
         /\ (Len(f) > 1 => f[1] # "0")

\* C2: a configuration Validate accepts has non-negative Kafka.KeepAlive,
\* DialTimeout, ReadTimeout, WriteTimeout and Proxy.ListenerKeepAlive,
\* MaxOpenRequests, RequestBufferSize and ResponseBufferSize of at least 1,
\* a non-empty BootstrapServers list and a non-empty, valid DefaultListenerIP.
C2_ValidatedShape ==
  pc = "ready" =>
    /\ c.Kafka.KeepAlive >= 0
    /\ c.Kafka.DialTimeout >= 0
    /\ c.Kafka.ReadTimeout >= 0
    /\ c.Kafka.WriteTimeout >= 0
    /\ c.Proxy.ListenerKeepAlive >= 0
    /\ c.Kafka.MaxOpenRequests >= 1
    /\ c.Proxy.RequestBufferSize >= 1
    /\ c.Proxy.ResponseBufferSize >= 1
    /\ Len(c.Proxy.BootstrapServers) > 0
    /\ c.Proxy.DefaultListenerIP # <<>>
    /\ DottedDecimal(c.Proxy.DefaultListenerIP)

C2_Witness == pc = "ready" /\ c.Kafka.WriteTimeout = 0

\* C3: with dynamic listeners enabled and a positive DynamicSequentialMinPort,
\* an accepted configuration has DynamicSequentialMaxPorts >= 1 and
\* DynamicSequentialMinPort + DynamicSequentialMaxPorts - 1 <= 65535.
C3_PortRangeWithin16Bits ==
  (pc = "ready" /\ ~c.Proxy.DisableDynamicListeners /\ c.Proxy.DynamicSequentialMinPort > 0) =>
    /\ c.Proxy.DynamicSequentialMaxPorts >= 1
    /\ c.Proxy.DynamicSequentialMinPort + c.Proxy.DynamicSequentialMaxPorts - 1 <= 65535

\* C4: with dynamic listeners enabled, Validate returns an error whenever
\* DynamicSequentialMinPort is 0 and either DeterministicListeners is set or
\* DynamicSequentialMaxPorts is positive; no accepted configuration combines
\* them.
C4_EphemeralPortsRejected ==
  /\ (/\ Validated
      /\ ~c0.Proxy.DisableDynamicListeners
      /\ c0.Proxy.DynamicSequentialMinPort = 0
      /\ (c0.Proxy.DeterministicListeners \/ c0.Proxy.DynamicSequentialMaxPorts > 0))
       => (pc = "rejected" /\ err # Nil)
  /\ (pc = "ready" /\ ~c.Proxy.DisableDynamicListeners /\ c.Proxy.DynamicSequentialMinPort = 0)
       => (~c.Proxy.DeterministicListeners /\ c.Proxy.DynamicSequentialMaxPorts = 0)

C4_Witness ==
  /\ pc = "rejected"
  /\ ~c0.Proxy.DisableDynamicListeners
  /\ c0.Proxy.DynamicSequentialMinPort = 0
  /\ ~c0.Proxy.DeterministicListeners
  /\ c0.Proxy.DynamicSequentialMaxPorts > 0
  /\ err = "Proxy.DynamicSequentialMinPort must be set when Proxy.DynamicSequentialMaxPorts is set"

\* C5: in a configuration accepted at load time no two static mappings, of
\* BootstrapServers and ExternalServers together, have the same
\* ListenerAddress.
C5_ListenAddressesUnique ==
  pc = "ready" =>
    LET all == c.Proxy.BootstrapServers \o c.Proxy.ExternalServers IN
    \A i, j \in 1..Len(all) :
      i # j => all[i].ListenerAddress # all[j].ListenerAddress

\* host:port as the list carries it: the port in canonical decimal
Canonical(hostport) ==
  LET i == LastIndex(hostport, ":") IN
  SubSeq(hostport, 1, i) \o Sprint(DecVal(SubSeq(hostport, i + 1, Len(hostport))))

\* a host, one colon and a non-empty run of digits
WellFormedHostPort(hostport) ==
  \E i \in 1..(Len(hostport) - 1) :
    /\ hostport[i] = ":"
    /\ \A n \in 1..Len(hostport) : n # i => hostport[n] # ":"
    /\ \A n \in (i + 1)..Len(hostport) : hostport[n] \in Digits

WellFormedEntry(v) ==
  LET parts == Split(v, ",") IN
  /\ Len(parts) \in {2, 3}
  /\ \A n \in 1..Len(parts) : WellFormedHostPort(parts[n])

\* what getListenerConfigs must give for the mapping m: list is the list
\* stored, failed tells that the call returned an error
ListenerContract(m, list, failed) ==
  IF \E i \in 1..Len(m) : ~WellFormedEntry(m[i])
    THEN failed /\ list = <<>>
  ELSE /\ ~failed
       /\ Len(list) = Len(m)
       /\ \A i \in 1..Len(m) :
            LET parts == Split(m[i], ",") IN
            /\ list[i].BrokerAddress = Canonical(parts[1])
            /\ list[i].ListenerAddress = Canonical(parts[2])
            /\ Len(parts) = 2 => list[i].AdvertisedAddress = list[i].ListenerAddress
            /\ Len(parts) = 3 => list[i].AdvertisedAddress = Canonical(parts[3])

\* C6: getListenerConfigs returns one ListenerConfig per entry, in input
\* order; a two-part entry advertises its listener address, a three-part
\* entry the address of its third part; an entry with another number of
\* parts or an unparsable host:port gives an error and the nil list.
C6_ListenerConfigs ==
  /\ pc # "flags" =>
       ListenerContract(args.bootstrapServersMapping, c.Proxy.BootstrapServers,
                        pc = "failedBootstrap")
  /\ pc \notin {"flags", "failedBootstrap", "external"} =>
       ListenerContract(args.externalServersMapping, c.Proxy.ExternalServers,
                        pc = "failedExternal")

C6_Witness ==
  /\ pc = "external"
  /\ Len(c.Proxy.BootstrapServers) = 2
  /\ Len(Split(args.bootstrapServersMapping[1], ",")) = 3
  /\ Len(Split(args.bootstrapServersMapping[2], ",")) = 2
  /\ c.Proxy.BootstrapServers[1].AdvertisedAddress # c.Proxy.BootstrapServers[1].ListenerAddress

\* the host part of a URL: what follows the last "@", or the "//"
UrlHostPart(url) ==
  LET k == IF Contains(url, "@") THEN LastIndex(url, "@") ELSE Index(url, "//") IN
  SubSeq(url, k + 1, Len(url))

\* C7: a configuration with a ForwardProxy.Url that Validate accepts has
\* Scheme http or socks5, Address the URL's host part ending in a non-empty
\* port, and, when the URL carries user info, non-empty Username and
\* Password.
C7_ForwardProxy ==
  (pc = "ready" /\ c.ForwardProxy.Url # <<>>) =>
    LET fp == c.ForwardProxy IN
    /\ fp.Scheme \in {"http", "socks5"}
    /\ fp.Address = UrlHostPart(fp.Url)
    /\ Len(fp.Address) >= 3
    /\ fp.Address[Len(fp.Address) - 1] = ":"
    /\ fp.Address[Len(fp.Address)] \in NumberWords
    /\ Contains(fp.Url, "@") => (fp.Username # <<>> /\ fp.Password # <<>>)

C7_Witness ==
  /\ pc = "ready"
  /\ Contains(c.ForwardProxy.Url, "@")
  /\ c.ForwardProxy.Scheme = "socks5"

\* C10 as stated: a configuration Validate rejects has every field as it
\* was before the call.
C10_RejectedUnchanged == pc = "rejected" => c = c0

\* C10, amended: a configuration Validate rejects has every field as it was
\* before the call, except the four fields Validate derives from
\* ForwardProxy.Url (Address, Scheme, Username, Password).
C10_RejectedUnchangedButDerived ==
  pc = "rejected" =>
    /\ [c EXCEPT !.ForwardProxy = c0.ForwardProxy] = c0
    /\ c.ForwardProxy.Url = c0.ForwardProxy.Url

C10_Witness ==
  /\ pc = "rejected"
  /\ c.ForwardProxy.Address # c0.ForwardProxy.Address
  /\ c.Proxy.DynamicSequentialMaxPorts = c0.Proxy.DynamicSequentialMaxPorts

\* ------------------------------------------------------------------------
\* ListenerDirectory and AddressPool (spec sections 3, 4.1, 4.2, 5):
\* connection handlers call provision(brokerId) concurrently.  The pool
\* leases ports sequentially from minPort; the directory guards
\* lookup-then-create with one exclusive lock.
\* ------------------------------------------------------------------------
Brokers == 1..NumBrokers
Handlers == 1..NumHandlers

MinPort == 10000
MaxPort == MinPort + NumBrokers - 1

InitDirectory ==
  [mappings      |-> [b \in Brokers |-> 0],   \* broker id -> listen port, 0: none
   listeners     |-> <<>>,                      \* the listeners bound, in order
   nextCandidate |-> MinPort,
   leased        |-> {},
   lock          |-> 0]                         \* the handler inside provision, 0: none

IdleHandler == [pc |-> "idle", broker |-> 0, port |-> 0, result |-> 0, err |-> Nil]

\* the exclusive-access guard of lookup-then-create
LockFreeAlways(d) == TRUE

LockFree(d) == d.lock = 0

PortBound(d, port) == \E i \in 1..Len(d.listeners) : d.listeners[i].port = port

\* a handler meets a broker id in a response and calls provision
CallProvision(h) ==
  /\ hs[h].pc = "idle"
  /\ \E b \in Brokers : hs' = [hs EXCEPT ![h].pc = "acquire", ![h].broker = b]
  /\ UNCHANGED <<dir, conns>> /\ UNCHANGED cfgVars

Acquire(h) ==
  /\ hs[h].pc = "acquire"
  /\ LockFree(dir)
  /\ dir' = [dir EXCEPT !.lock = h]
  /\ hs' = [hs EXCEPT ![h].pc = "lookup"]
  /\ UNCHANGED conns /\ UNCHANGED cfgVars

\* an existing mapping is returned unchanged
Lookup(h) ==
  /\ hs[h].pc = "lookup"
  /\ hs' = IF dir.mappings[hs[h].broker] # 0
             THEN [hs EXCEPT ![h].pc = "release", ![h].result = dir.mappings[hs[h].broker]]
           ELSE [hs EXCEPT ![h].pc = "lease"]
  /\ UNCHANGED <<dir, conns>> /\ UNCHANGED cfgVars

\* AddressPool.lease in sequential mode
Lease(h) ==
  /\ hs[h].pc = "lease"
  /\ IF dir.nextCandidate > MaxPort
       THEN /\ hs' = [hs EXCEPT ![h].pc = "release", ![h].err = "PoolExhausted"]
            /\ dir' = dir
     ELSE /\ hs' = [hs EXCEPT ![h].pc = "bind", ![h].port = dir.nextCandidate]
          /\ dir' = [dir EXCEPT !.nextCandidate = @ + 1,
                                !.leased = @ \cup {dir.nextCandidate}]
  /\ UNCHANGED conns /\ UNCHANGED cfgVars

\* binding fails when the address is in use; nothing is registered then
Bind(h) ==
  /\ hs[h].pc = "bind"
  /\ IF PortBound(dir, hs[h].port)
       THEN /\ hs' = [hs EXCEPT ![h].pc = "release", ![h].err = "ProvisionFailed"]
            /\ dir' = dir
     ELSE /\ hs' = [hs EXCEPT ![h].pc = "register"]
          /\ dir' = [dir EXCEPT !.listeners =
                       Append(@, [broker |-> hs[h].broker, port |-> hs[h].port])]
  /\ UNCHANGED conns /\ UNCHANGED cfgVars

Register(h) ==
  /\ hs[h].pc = "register"
  /\ dir' = [dir EXCEPT !.mappings[hs[h].broker] = hs[h].port]
  /\ hs' = [hs EXCEPT ![h].pc = "release", ![h].result = hs[h].port]
  /\ UNCHANGED conns /\ UNCHANGED cfgVars

Release(h) ==
  /\ hs[h].pc = "release"
  /\ dir' = [dir EXCEPT !.lock = IF @ = h THEN 0 ELSE @]
  /\ hs' = [hs EXCEPT ![h].pc = "done"]
  /\ UNCHANGED conns /\ UNCHANGED cfgVars

InitProvision ==
  /\ InitConfig
  /\ dir = InitDirectory
  /\ hs = [h \in Handlers |-> IdleHandler]
  /\ conns = <<>>

NextProvision ==
  \E h \in Handlers :
    \/ CallProvision(h)
    \/ Acquire(h)
    \/ Lookup(h)
    \/ Lease(h)
    \/ Bind(h)
    \/ Register(h)
    \/ Release(h)

SpecProvision == InitProvision /\ [][NextProvision]_vars

ListenersOf(b) == { i \in 1..Len(dir.listeners) : dir.listeners[i].broker = b }

Requested == { hs[h].broker : h \in Handlers } \ {0}

\* C8: however the concurrent provision calls for a previously-unseen broker
\* id interleave, at most one listener is ever bound for the id and no port
\* is bound twice; a registered mapping has exactly one listener, on its
\* port; every caller that has returned received that mapping without
\* error; and once all callers have returned, each requested id has exactly
\* one mapping, one listener and one leased port.
C8_OneMappingPerBroker ==
  /\ \A b \in Brokers :
       /\ Cardinality(ListenersOf(b)) <= 1
       /\ dir.mappings[b] # 0 =>
            \E i \in ListenersOf(b) : dir.listeners[i].port = dir.mappings[b]
       /\ \A h \in Handlers :
            (hs[h].pc = "done" /\ hs[h].broker = b) =>
              (hs[h].err = Nil /\ hs[h].result # 0 /\ hs[h].result = dir.mappings[b])
  /\ \A i, j \in 1..Len(dir.listeners) :
       i # j => dir.listeners[i].port # dir.listeners[j].port
  /\ Len(dir.listeners) <= Cardinality(dir.leased)
  /\ Cardinality(dir.leased) <= Cardinality(Requested)
  /\ (\A h \in Handlers : hs[h].pc = "done") =>
       /\ Len(dir.listeners) = Cardinality(Requested)
       /\ Cardinality(dir.leased) = Cardinality(Requested)
       /\ \A b \in Requested : dir.mappings[b] # 0

\* every handler has returned from provision for the same broker id, the
\* first having created the mapping while the others waited
C8_Witness ==
  /\ \A h \in Handlers : hs[h].pc = "done" /\ hs[h].broker = 1
  /\ Len(dir.listeners) = 1
  /\ dir.mappings[1] = MinPort

\* ------------------------------------------------------------------------
\* ConnectionPipeline and AuthPluginHost for local client authentication
\* (spec sections 4.4, 4.5, 5), one pipeline per accepted connection.
\* ------------------------------------------------------------------------
Conns == 1..NumConns

AcceptedConn == [state |-> "Accepted", auth |-> "Idle", dials |-> 0, relayed |-> FALSE]

Verdicts == {"Allowed", "Denied", "TimedOut", "PluginError"}

\* the verdicts on which the pipeline goes on to dial the broker
MayDialUnlessDenied(verdict) == verdict \in Verdicts \ {"Denied"}

MayDial(verdict) == verdict = "Allowed"

Step(k, conn) ==
  /\ conns' = [conns EXCEPT ![k] = conn]
  /\ UNCHANGED <<dir, hs>> /\ UNCHANGED cfgVars

BeginAuthentication(k) ==
  /\ conns[k].state = "Accepted"
  /\ Step(k, [conns[k] EXCEPT !.state = "Authenticating"])

\* local auth disabled: straight to Dialing
SkipAuthentication(k) ==
  /\ conns[k].state = "Authenticating"
  /\ ~c.Auth.Local.Enable
  /\ Step(k, [conns[k] EXCEPT !.state = "Dialing"])

InvokePlugin(k) ==
  /\ conns[k].state = "Authenticating"
  /\ c.Auth.Local.Enable
  /\ conns[k].auth = "Idle"
  /\ Step(k, [conns[k] EXCEPT !.auth = "PluginInvoked"])

PluginReturns(k) ==
  /\ conns[k].state = "Authenticating"
  /\ conns[k].auth = "PluginInvoked"
  /\ \E v \in {"Allowed", "Denied", "PluginError"} : Step(k, [conns[k] EXCEPT !.auth = v])

PluginTimesOut(k) ==
  /\ conns[k].state = "Authenticating"
  /\ conns[k].auth = "PluginInvoked"
  /\ Step(k, [conns[k] EXCEPT !.auth = "TimedOut"])

\* the verdict decides: on to Dialing, or the connection is closed
ApplyVerdict(k) ==
  /\ conns[k].state = "Authenticating"
  /\ conns[k].auth \in Verdicts
  /\ Step(k, [conns[k] EXCEPT !.state = IF MayDial(conns[k].auth) THEN "Dialing"
                                         ELSE "Aborted"])

\* the outbound connection is established, or the dial fails
Dial(k) ==
  /\ conns[k].state = "Dialing"
  /\ \/ Step(k, [conns[k] EXCEPT !.state = "Relaying", !.dials = @ + 1])
     \/ Step(k, [conns[k] EXCEPT !.state = "Aborted"])

Relay(k) ==
  /\ conns[k].state = "Relaying"
  /\ ~conns[k].relayed
  /\ Step(k, [conns[k] EXCEPT !.relayed = TRUE])

\* either side closes: both legs are closed
CloseConn(k) ==
  /\ conns[k].state = "Relaying"
  /\ Step(k, [conns[k] EXCEPT !.state = "Closed"])

\* a fatal error in any non-terminal state
Abort(k) ==
  /\ conns[k].state \notin {"Closed", "Aborted"}
  /\ Step(k, [conns[k] EXCEPT !.state = "Aborted"])

LocalAuthSpecs ==
  { PluginSpec, [Enable |-> TRUE, Command |-> "x", Mechanism |-> "PLAIN", Timeout |-> 1] }

InitPipeline ==
  /\ \E a \in LocalAuthSpecs : c = [NewConfig EXCEPT !.Auth.Local = a]
  /\ c0 = NewConfig
  /\ args = [bootstrapServersMapping |-> <<>>, externalServersMapping |-> <<>>]
  /\ err = Nil /\ pc = "ready" /\ nsets = 0
  /\ dir = NoDir /\ hs = <<>>
  /\ conns = [k \in Conns |-> AcceptedConn]

NextPipeline ==
  \E k \in Conns :
    \/ BeginAuthentication(k)
    \/ SkipAuthentication(k)
    \/ InvokePlugin(k)
    \/ PluginReturns(k)
    \/ PluginTimesOut(k)
    \/ ApplyVerdict(k)
    \/ Dial(k)
    \/ Relay(k)
    \/ CloseConn(k)
    \/ Abort(k)

SpecPipeline == InitPipeline /\ [][NextPipeline]_vars

\* C9: with local auth enabled, a connection is dialing, relaying or has a
\* broker-side connection only after the verdict Allowed; with any other
\* verdict it has no broker-side connection, has relayed nothing, and is
\* still in Authenticating or terminated.
C9_FailClosed ==
  c.Auth.Local.Enable =>
    \A k \in Conns :
      /\ (conns[k].state \in {"Dialing", "Relaying", "Closed"}
            \/ conns[k].dials > 0 \/ conns[k].relayed)
           => conns[k].auth = "Allowed"
      /\ conns[k].auth \in {"Denied", "TimedOut", "PluginError"} =>
           /\ conns[k].dials = 0
           /\ ~conns[k].relayed
           /\ conns[k].state \in {"Authenticating", "Aborted"}

C9_Witness ==
  /\ c.Auth.Local.Enable
  /\ conns[1].auth = "TimedOut" /\ conns[1].state = "Aborted" /\ conns[1].dials = 0
  /\ conns[2].auth = "Allowed" /\ conns[2].state = "Relaying" /\ conns[2].dials = 1

====
